---- MODULE Spec2Model ----
(***************************************************************************)
(* AHELP website: the Express backend (AHELP/backend/server.js) that keeps *)
(* users, progress entries and community posts in three JSON documents,    *)
(* and the session helper of the frontend script (Frontend/js/main.js).    *)
(*                                                                         *)
(* Every route handler of server.js is one synchronous callback: it reads  *)
(* its document with readFileSync, transforms it and rewrites it with      *)
(* writeFileSync before it returns, so one handler is one step.            *)
(***************************************************************************)
EXTENDS Integers, Sequences, FiniteSets, TLC

VARIABLES
    usersDoc,       \* data/users.json: sequence of user records
    progressDoc,    \* data/progress.json: sequence of progress entries
    communityDoc,   \* data/community.json: sequence of posts
    clock,          \* the server's wall clock (new Date())
    resp,           \* the request served last and the response it got
    inflight,       \* requests received by the server and not yet handled
    served,         \* history: requests handled from the in-flight queue
    created,        \* history: per username, the record its registration persisted and the password
    applied,        \* history: per username, the sum of the deltas addPoints applied
    logged,         \* history: the progress requests that were accepted
    writes,         \* history: the number of requests that reached writeJson
    lastActivity,   \* browser: localStorage item 'lastActivity' (decimal digits)
    now,            \* browser: Date.now()
    location,       \* browser: window.location.href
    intervalOn,     \* browser: the one-minute setInterval(checkSession) is armed
    intervalDue,    \* browser: the time its next run is due
    debouncePending,\* browser: the 250 ms timer of debouncedUpdateNav is armed
    debounceDue,    \* browser: the time that timer is due
    session         \* browser history: last checkSession result, expiry, nav runs

backendVars == <<usersDoc, progressDoc, communityDoc, clock, resp, created, applied, logged, writes>>
queueVars == <<inflight, served>>
browserVars == <<lastActivity, now, location, intervalOn, intervalDue, debouncePending,
                 debounceDue, session>>
vars == <<usersDoc, progressDoc, communityDoc, clock, resp, inflight, served, created,
          applied, logged, writes, lastActivity, now, location, intervalOn, intervalDue,
          debouncePending,
          debounceDue, session>>

----------------------------------------------------------------------------
(* Bounds of the model.                                                    *)

MaxWrites == 3
MaxClock == 1
MaxInflight == 2
MaxServed == 3
MaxAdvances == 4

----------------------------------------------------------------------------
(* JavaScript values as they arrive in a JSON body or a path parameter.    *)

Undefined == [t |-> "undefined", s |-> "", n |-> 0]
Null == [t |-> "null", s |-> "", n |-> 0]
Str(x) == [t |-> "string", s |-> x, n |-> 0]
Num(k) == [t |-> "number", s |-> "", n |-> k]

\* ToBoolean: undefined, null, '' and 0 are falsy.
Truthy(v) ==
    CASE v.t = "string" -> v.s # ""
      [] v.t = "number" -> v.n # 0
      [] OTHER -> FALSE

\* a || b
Or(a, b) == IF Truthy(a) THEN a ELSE b

\* v == null (loose equality): true of null and undefined only.
LooseNull(v) == v.t \in {"undefined", "null"}

\* typeof v === 'number'
IsNumber(v) == v.t = "number"

ProfileFields ==
    {"name", "agency", "age", "gender", "height", "weight", "exercise",
     "fruitsVeg", "water", "tobacco"}

NoProfile == [f \in ProfileFields |-> Undefined]
SomeProfile ==
    [f \in ProfileFields |->
        CASE f = "name" -> Str("Al")
          [] f = "age" -> Num(30)
          [] f = "water" -> Str("")
          [] OTHER -> Undefined]

----------------------------------------------------------------------------
(* Record Store.                                                           *)

\* readJson: the parsed document, or [] when the file is missing or the
\* read or the parse throws (ok = FALSE).
readJson(file, ok) == IF ok THEN file ELSE <<>>

writeJsonDropped(file, data, ok) == file

\* writeJson: the document is overwritten; a writeFileSync that throws
\* (ok = FALSE) is logged and swallowed.
writeJson(file, data, ok) == IF ok THEN data ELSE file

----------------------------------------------------------------------------
(* Credential Manager.                                                     *)

Salts == {"a1", "b2"}

HmacIgnoresPassword(salt, password) == [key |-> salt.s, msg |-> ""]

\* crypto.createHmac('sha256', salt).update(password).digest('hex'): an
\* injective function of (salt, password).
Hmac(salt, password) == [key |-> salt.s, msg |-> password.s]

\* Hmac.update throws a TypeError unless its data is a string (a JSON body
\* holds no Buffer); Express then answers 500.
HmacThrows(password) == password.t # "string"

----------------------------------------------------------------------------
(* Responses.                                                              *)

NoUser == <<>>

Res(status, error, message) ==
    [status |-> status, error |-> error, message |-> message,
     user |-> NoUser, points |-> 0, list |-> <<>>]

InternalError == Res(500, "TypeError", "")

\* users.find((u) => u.username === name): the first match, 0 when none.
FindUser(users, name) ==
    IF \E i \in DOMAIN users : users[i].username = name
    THEN CHOOSE i \in DOMAIN users :
            /\ users[i].username = name
            /\ \A j \in DOMAIN users : users[j].username = name => i <= j
    ELSE 0

safeUserKeepsSalt(user) == [f \in DOMAIN user \ {"passwordHash"} |-> user[f]]

\* const { passwordHash, salt, ...safeUser } = user
safeUser(user) == [f \in DOMAIN user \ {"passwordHash", "salt"} |-> user[f]]

----------------------------------------------------------------------------
(* Requests: a JSON body (absent fields undefined) and the :username path  *)
(* parameter.                                                              *)

Names == {"alice", "Alice"}

NoReq ==
    [op |-> "none", param |-> Undefined, username |-> Undefined,
     password |-> Undefined, profile |-> NoProfile, points |-> Undefined,
     steps |-> Undefined, minutes |-> Undefined, description |-> Undefined,
     title |-> Undefined, image |-> Undefined, duration |-> Undefined,
     activityType |-> Undefined]

ReqRegister(u, p, f) ==
    [NoReq EXCEPT !.op = "register", !.username = u, !.password = p, !.profile = f]

RegisterRequests ==
    {ReqRegister(Str("alice"), Str("pw123"), SomeProfile),
     ReqRegister(Str("Alice"), Str("wrong"), NoProfile),
     ReqRegister(Str("alice"), Undefined, NoProfile),
     ReqRegister(Str("alice"), Num(7), NoProfile),
     ReqRegister(Str(""), Str("pw123"), SomeProfile)}

ReqLogin(u, p) == [NoReq EXCEPT !.op = "login", !.username = u, !.password = p]

LoginRequests ==
    {ReqLogin(Str("alice"), Str("pw123")),
     ReqLogin(Str("alice"), Str("wrong")),
     ReqLogin(Str("alice"), Undefined),
     ReqLogin(Str("Alice"), Str("wrong")),
     ReqLogin(Undefined, Str("pw123"))}

GetProfileRequests ==
    {[NoReq EXCEPT !.op = "getProfile", !.param = Str(u)] : u \in Names}

ReqAddPoints(u, d) == [NoReq EXCEPT !.op = "addPoints", !.param = Str(u), !.points = d]

AddPointsRequests ==
    {ReqAddPoints("alice", Num(5)), ReqAddPoints("alice", Num(-2)),
     ReqAddPoints("alice", Str("5")),
     ReqAddPoints("Alice", Num(5))}

ReqLogProgress(u, st, m) ==
    [NoReq EXCEPT !.op = "logProgress", !.param = Str(u), !.steps = st, !.minutes = m]

LogProgressRequests ==
    {ReqLogProgress("alice", Num(500), Undefined),
     ReqLogProgress("Alice", Num(0), Num(30)),
     ReqLogProgress("alice", Undefined, Undefined),
     ReqLogProgress("alice", Null, Undefined)}

ListProgressRequests ==
    {[NoReq EXCEPT !.op = "listProgress", !.param = Str(u)] : u \in Names}

ListPostsRequests == {[NoReq EXCEPT !.op = "listPosts"]}

ReqCreatePost(u, d, o) ==
    [NoReq EXCEPT !.op = "createPost", !.username = u, !.description = d,
                  !.title = o, !.image = o, !.duration = o, !.activityType = o]

CreatePostRequests ==
    {ReqCreatePost(Str("alice"), Str("Ran 5k"), Str("x")),
     ReqCreatePost(Str("alice"), Undefined, Str("x")),
     ReqCreatePost(Str("alice"), Str(""), Undefined),
     ReqCreatePost(Undefined, Str("Ran 5k"), Undefined)}

----------------------------------------------------------------------------
(* Route handlers, as functions of the request and the document read: what *)
(* is written (if anything) and the response.                              *)

NoWrite(res) == [write |-> FALSE, data |-> <<>>, res |-> res]
Write(data, res) == [write |-> TRUE, data |-> data, res |-> res]

\* new Date().toISOString() at server time t
Timestamp(t) == [t |-> "string", s |-> "ISO-8601", n |-> t]

newUser(body, salt) ==
    [username |-> body.username,
     passwordHash |-> Hmac(Str(salt), body.password),
     salt |-> Str(salt),
     name |-> Or(body.profile["name"], Str("")),
     agency |-> Or(body.profile["agency"], Str("")),
     age |-> Or(body.profile["age"], Str("")),
     gender |-> Or(body.profile["gender"], Str("")),
     height |-> Or(body.profile["height"], Str("")),
     weight |-> Or(body.profile["weight"], Str("")),
     exercise |-> Or(body.profile["exercise"], Str("")),
     fruitsVeg |-> Or(body.profile["fruitsVeg"], Str("")),
     water |-> Or(body.profile["water"], Str("")),
     tobacco |-> Or(body.profile["tobacco"], Str("")),
     points |-> Num(0)]

registerNoConflict(body, users, salt) ==
    IF ~Truthy(body.username) \/ ~Truthy(body.password)
    THEN NoWrite(Res(400, "Username and password are required.", ""))
    ELSE IF HmacThrows(body.password)
    THEN NoWrite(InternalError)
    ELSE Write(Append(users, newUser(body, salt)),
               Res(200, "", "User registered successfully."))

\* POST /api/register
register(body, users, salt) ==
    IF ~Truthy(body.username) \/ ~Truthy(body.password)
    THEN NoWrite(Res(400, "Username and password are required.", ""))
    ELSE IF FindUser(users, body.username) # 0
    THEN NoWrite(Res(400, "Username already exists.", ""))
    ELSE IF HmacThrows(body.password)
    THEN NoWrite(InternalError)
    ELSE Write(Append(users, newUser(body, salt)),
               Res(200, "", "User registered successfully."))

\* POST /api/login
login(body, users) ==
    LET i == FindUser(users, body.username) IN
    IF i = 0
    THEN NoWrite(Res(400, "Invalid credentials.", ""))
    ELSE IF HmacThrows(body.password)
    THEN NoWrite(InternalError)
    ELSE IF Hmac(users[i].salt, body.password) # users[i].passwordHash
    THEN NoWrite(Res(400, "Invalid credentials.", ""))
    ELSE NoWrite([Res(200, "", "") EXCEPT !.user = <<safeUser(users[i])>>])

\* GET /api/user/:username
getProfile(req, users) ==
    LET i == FindUser(users, req.param) IN
    IF i = 0
    THEN NoWrite(Res(404, "User not found.", ""))
    ELSE NoWrite([Res(200, "", "") EXCEPT !.user = <<safeUser(users[i])>>])

addPointsOverwrites(req, users) ==
    IF ~IsNumber(req.points)
    THEN NoWrite(Res(400, "The \"points\" field must be a number.", ""))
    ELSE LET i == FindUser(users, req.param) IN
         IF i = 0
         THEN NoWrite(Res(404, "User not found.", ""))
         ELSE Write([users EXCEPT ![i].points = req.points],
                    [Res(200, "", "") EXCEPT !.points = req.points.n])

\* POST /api/user/:username/points
addPoints(req, users) ==
    IF ~IsNumber(req.points)
    THEN NoWrite(Res(400, "The \"points\" field must be a number.", ""))
    ELSE LET i == FindUser(users, req.param) IN
         IF i = 0
         THEN NoWrite(Res(404, "User not found.", ""))
         ELSE LET total == Or(users[i].points, Num(0)).n + req.points.n IN
              Write([users EXCEPT ![i].points = Num(total)],
                    [Res(200, "", "") EXCEPT !.points = total])

\* POST /api/user/:username/progress
logProgress(req, progress, t) ==
    IF LooseNull(req.steps) /\ LooseNull(req.minutes)
    THEN NoWrite(Res(400, "Please provide steps or minutes.", ""))
    ELSE Write(Append(progress,
                      [username |-> req.param,
                       steps |-> Or(req.steps, Null),
                       minutes |-> Or(req.minutes, Null),
                       timestamp |-> Timestamp(t)]),
               Res(200, "", "Progress logged successfully."))

\* GET /api/user/:username/progress
listProgress(req, progress) ==
    NoWrite([Res(200, "", "") EXCEPT
                !.list = SelectSeq(progress, LAMBDA p : p.username = req.param)])

\* GET /api/community
listPosts(posts) == NoWrite([Res(200, "", "") EXCEPT !.list = posts])

createPostAppendsFirst(body, posts, t) ==
    Write(Append(posts,
                 [username |-> body.username,
                  title |-> Or(body.title, Str("")),
                  description |-> body.description,
                  image |-> Or(body.image, Str("")),
                  duration |-> Or(body.duration, Str("")),
                  activityType |-> Or(body.activityType, Str("")),
                  timestamp |-> Timestamp(t)]),
          IF ~Truthy(body.username) \/ ~Truthy(body.description)
          THEN Res(400, "Post must include a username and description.", "")
          ELSE Res(200, "", "Post created successfully."))

\* POST /api/community
createPost(body, posts, t) ==
    IF ~Truthy(body.username) \/ ~Truthy(body.description)
    THEN NoWrite(Res(400, "Post must include a username and description.", ""))
    ELSE Write(Append(posts,
                      [username |-> body.username,
                       title |-> Or(body.title, Str("")),
                       description |-> body.description,
                       image |-> Or(body.image, Str("")),
                       duration |-> Or(body.duration, Str("")),
                       activityType |-> Or(body.activityType, Str("")),
                       timestamp |-> Timestamp(t)]),
               Res(200, "", "Post created successfully."))

----------------------------------------------------------------------------
(* The server: one step per request, the whole handler.                    *)

NoRecord == <<>>

Reliable == {TRUE}
Faulty == {TRUE, FALSE}

Register(req, salt, rOk, wOk) ==
    LET out == register(req, readJson(usersDoc, rOk), salt)
        u == req.username.s
        persisted == out.write /\ wOk
    IN  /\ out.write => writes < MaxWrites
        /\ usersDoc' = IF out.write THEN writeJson(usersDoc, out.data, wOk) ELSE usersDoc
        /\ resp' = [req |-> req, res |-> out.res]
        /\ created' = IF persisted
                      THEN [created EXCEPT ![u] = <<[record |-> out.data[Len(out.data)],
                                                     password |-> req.password]>>]
                      ELSE created
        /\ applied' = IF persisted THEN [applied EXCEPT ![u] = 0] ELSE applied
        /\ writes' = IF out.write THEN writes + 1 ELSE writes
        /\ UNCHANGED <<progressDoc, communityDoc, clock, logged>>

Login(req, rOk) ==
    LET out == login(req, readJson(usersDoc, rOk))
    IN  /\ resp' = [req |-> req, res |-> out.res]
        /\ UNCHANGED <<usersDoc, progressDoc, communityDoc, clock, created, applied, logged, writes>>

GetProfile(req, rOk) ==
    LET out == getProfile(req, readJson(usersDoc, rOk))
    IN  /\ resp' = [req |-> req, res |-> out.res]
        /\ UNCHANGED <<usersDoc, progressDoc, communityDoc, clock, created, applied, logged, writes>>

AddPoints(req, rOk, wOk) ==
    LET out == addPoints(req, readJson(usersDoc, rOk))
        u == req.param.s
    IN  /\ out.write => writes < MaxWrites
        /\ usersDoc' = IF out.write THEN writeJson(usersDoc, out.data, wOk) ELSE usersDoc
        /\ resp' = [req |-> req, res |-> out.res]
        /\ applied' = IF out.write
                      THEN [applied EXCEPT ![u] = @ + req.points.n]
                      ELSE applied
        /\ writes' = IF out.write THEN writes + 1 ELSE writes
        /\ UNCHANGED <<progressDoc, communityDoc, clock, created, logged>>

LogProgress(req, rOk, wOk) ==
    LET out == logProgress(req, readJson(progressDoc, rOk), clock)
    IN  /\ out.write => writes < MaxWrites
        /\ progressDoc' = IF out.write
                          THEN writeJson(progressDoc, out.data, wOk)
                          ELSE progressDoc
        /\ resp' = [req |-> req, res |-> out.res]
        /\ logged' = IF out.write
                     THEN Append(logged, [username |-> req.param, steps |-> req.steps,
                                          minutes |-> req.minutes])
                     ELSE logged
        /\ writes' = IF out.write THEN writes + 1 ELSE writes
        /\ UNCHANGED <<usersDoc, communityDoc, clock, created, applied>>

ListProgress(req, rOk) ==
    LET out == listProgress(req, readJson(progressDoc, rOk))
    IN  /\ resp' = [req |-> req, res |-> out.res]
        /\ UNCHANGED <<usersDoc, progressDoc, communityDoc, clock, created, applied, logged, writes>>

ListPosts(req, rOk) ==
    LET out == listPosts(readJson(communityDoc, rOk))
    IN  /\ resp' = [req |-> req, res |-> out.res]
        /\ UNCHANGED <<usersDoc, progressDoc, communityDoc, clock, created, applied, logged, writes>>

CreatePost(req, rOk, wOk) ==
    LET out == createPost(req, readJson(communityDoc, rOk), clock)
    IN  /\ out.write => writes < MaxWrites
        /\ communityDoc' = IF out.write
                           THEN writeJson(communityDoc, out.data, wOk)
                           ELSE communityDoc
        /\ resp' = [req |-> req, res |-> out.res]
        /\ writes' = IF out.write THEN writes + 1 ELSE writes
        /\ UNCHANGED <<usersDoc, progressDoc, clock, created, applied, logged>>

\* Express routing: the handler of the request's method and path.
Route(req, salt, rOk, wOk) ==
    CASE req.op = "register" -> Register(req, salt, rOk, wOk)
      [] req.op = "login" -> Login(req, rOk)
      [] req.op = "getProfile" -> GetProfile(req, rOk)
      [] req.op = "addPoints" -> AddPoints(req, rOk, wOk)
      [] req.op = "logProgress" -> LogProgress(req, rOk, wOk)
      [] req.op = "listProgress" -> ListProgress(req, rOk)
      [] req.op = "listPosts" -> ListPosts(req, rOk)
      [] req.op = "createPost" -> CreatePost(req, rOk, wOk)

(* Requests served as they arrive. F is the set of storage outcomes. *)

RegisterReq(F) ==
    \E req \in RegisterRequests, salt \in Salts, rOk \in F, wOk \in F :
        Register(req, salt, rOk, wOk) /\ UNCHANGED <<queueVars, browserVars>>

LoginReq(F) ==
    \E req \in LoginRequests, rOk \in F :
        Login(req, rOk) /\ UNCHANGED <<queueVars, browserVars>>

GetProfileReq(F) ==
    \E req \in GetProfileRequests, rOk \in F :
        GetProfile(req, rOk) /\ UNCHANGED <<queueVars, browserVars>>

AddPointsReq(F) ==
    \E req \in AddPointsRequests, rOk \in F, wOk \in F :
        AddPoints(req, rOk, wOk) /\ UNCHANGED <<queueVars, browserVars>>

LogProgressReq(F) ==
    \E req \in LogProgressRequests, rOk \in F, wOk \in F :
        LogProgress(req, rOk, wOk) /\ UNCHANGED <<queueVars, browserVars>>

ListProgressReq(F) ==
    \E req \in ListProgressRequests, rOk \in F :
        ListProgress(req, rOk) /\ UNCHANGED <<queueVars, browserVars>>

ListPostsReq(F) ==
    \E req \in ListPostsRequests, rOk \in F :
        ListPosts(req, rOk) /\ UNCHANGED <<queueVars, browserVars>>

CreatePostReq(F) ==
    \E req \in CreatePostRequests, rOk \in F, wOk \in F :
        CreatePost(req, rOk, wOk) /\ UNCHANGED <<queueVars, browserVars>>

\* The server's wall clock advances.
Tick ==
    /\ clock < MaxClock
    /\ clock' = clock + 1
    /\ UNCHANGED <<usersDoc, progressDoc, communityDoc, resp, created, applied, logged,
                   writes, queueVars, browserVars>>

----------------------------------------------------------------------------
(* The server with requests in flight: Express hands each received request *)
(* to its handler in a turn of the event loop, and the handler runs to its *)
(* response within that turn.                                              *)

QueueRequests ==
    {ReqRegister(Str("alice"), Str("pw123"), SomeProfile),
     ReqRegister(Str("Alice"), Str("wrong"), NoProfile),
     ReqAddPoints("alice", Num(5)),
     ReqAddPoints("alice", Num(-2)),
     ReqLogProgress("alice", Num(500), Undefined),
     ReqLogProgress("Alice", Num(0), Num(30)),
     ReqCreatePost(Str("alice"), Str("Ran 5k"), Str("x")),
     ReqCreatePost(Str("alice"), Undefined, Str("x"))}

Remove(seq, i) == [k \in 1..(Len(seq) - 1) |-> IF k < i THEN seq[k] ELSE seq[k + 1]]

\* A request arrives while others may still be waiting for their turn.
Receive ==
    \E req \in QueueRequests :
        /\ Len(inflight) < MaxInflight
        /\ Len(inflight) + Len(served) < MaxServed
        /\ inflight' = Append(inflight, req)
        /\ UNCHANGED <<served, backendVars, browserVars>>

\* The event loop runs the handler of one waiting request, whole.
Complete ==
    \E i \in DOMAIN inflight, salt \in Salts :
        /\ Route(inflight[i], salt, TRUE, TRUE)
        /\ inflight' = Remove(inflight, i)
        /\ served' = Append(served, [req |-> inflight[i],
                                     status |-> resp'.res.status,
                                     concurrent |-> Remove(inflight, i)])
        /\ UNCHANGED browserVars

NextQueue == Receive \/ Complete

----------------------------------------------------------------------------
(* The browser: session helper of main.js.                                 *)

SessionTimeout == 1800000
CheckInterval == 60000
DebounceWait == 250

RECURSIVE ToDigits(_)
\* Number.prototype.toString(): the decimal digits of n >= 0.
ToDigits(n) == IF n < 10 THEN <<n>> ELSE Append(ToDigits(n \div 10), n % 10)

RECURSIVE ParseInt(_)
\* parseInt of a string of decimal digits.
ParseInt(d) ==
    IF Len(d) = 1 THEN d[1]
    ELSE 10 * ParseInt(SubSeq(d, 1, Len(d) - 1)) + d[Len(d)]

\* localStorage.getItem of an absent key is null; like '' it is falsy.
NoItem == <<>>

checkSessionLenient(item, t) ==
    IF item # NoItem /\ (t - ParseInt(item)) > SessionTimeout + 1
    THEN [result |-> FALSE, item |-> item, redirect |-> TRUE]
    ELSE [result |-> TRUE, item |-> ToDigits(t), redirect |-> FALSE]

\* checkSession(): the result, the 'lastActivity' item afterwards, and
\* whether window.location.href was set to '/login.html'.
checkSession(item, t) ==
    IF item # NoItem /\ (t - ParseInt(item)) > SessionTimeout
    THEN [result |-> FALSE, item |-> item, redirect |-> TRUE]
    ELSE [result |-> TRUE, item |-> ToDigits(t), redirect |-> FALSE]

NoSession ==
    [checked |-> FALSE, result |-> FALSE, at |-> 0, stored |-> -1, expired |-> FALSE,
     navRuns |-> 0, navAfterExpiry |-> FALSE, navCalledAfterExpiry |-> FALSE,
     advances |-> 0]

\* History of a checkSession call made at the current time: its result, the
\* time of the call, the time the item held before it (-1: no item).
Checked(c) ==
    [session EXCEPT !.checked = TRUE, !.result = c.result, !.at = now,
                    !.stored = IF session.checked /\ session.result
                               THEN session.at ELSE session.stored,
                    !.expired = @ \/ ~c.result]

\* History of updateNavInfo being called, or handed to the debounce timer.
NavCalled(h) == [h EXCEPT !.navCalledAfterExpiry = @ \/ h.expired]

\* History of updateNavInfo running.
NavRun(h) == [h EXCEPT !.navRuns = 1, !.navAfterExpiry = @ \/ h.expired]

Pages == {"/index.html", "/login.html"}

\* A page that includes main.js is loaded: the timers of the page before
\* are gone, and the DOMContentLoaded listener runs.
PageLoad ==
    \E p \in Pages :
        LET c == checkSession(lastActivity, now) IN
        /\ lastActivity' = c.item
        /\ location' = IF c.redirect THEN "/login.html" ELSE p
        /\ intervalOn' = c.result
        /\ intervalDue' = IF c.result THEN now + CheckInterval ELSE 0
        /\ debouncePending' = FALSE
        /\ debounceDue' = 0
        /\ session' = IF c.result THEN NavRun(NavCalled(Checked(c))) ELSE Checked(c)
        /\ UNCHANGED <<now, backendVars, queueVars>>

\* setInterval(checkSession, 60000) runs, no earlier than it is due.
IntervalFire ==
    LET c == checkSession(lastActivity, now) IN
    /\ intervalOn
    /\ now >= intervalDue
    /\ lastActivity' = c.item
    /\ location' = IF c.redirect THEN "/login.html" ELSE location
    /\ intervalDue' = now + CheckInterval
    /\ session' = Checked(c)
    /\ UNCHANGED <<now, intervalOn, debouncePending, debounceDue, backendVars, queueVars>>

\* The visibilitychange listener: checkSession only runs when the page has
\* become visible; debouncedUpdateNav() re-arms its 250 ms timer.
VisibilityChange ==
    \E visible \in BOOLEAN :
        LET c == checkSession(lastActivity, now) IN
        /\ IF visible
           THEN /\ lastActivity' = c.item
                /\ location' = IF c.redirect THEN "/login.html" ELSE location
                /\ debouncePending' = (debouncePending \/ c.result)
                /\ debounceDue' = IF c.result THEN now + DebounceWait ELSE debounceDue
                /\ session' = IF c.result THEN NavCalled(Checked(c)) ELSE Checked(c)
           ELSE UNCHANGED <<lastActivity, location, debouncePending, debounceDue, session>>
        /\ UNCHANGED <<now, intervalOn, intervalDue, backendVars, queueVars>>

\* The debounce timer runs updateNavInfo, no earlier than it is due.
DebounceFire ==
    /\ debouncePending
    /\ now >= debounceDue
    /\ debouncePending' = FALSE
    /\ session' = NavRun(session)
    /\ UNCHANGED <<lastActivity, now, location, intervalOn, intervalDue, debounceDue,
                   backendVars, queueVars>>

\* Date.now() moves on; it does not go back.
Advance ==
    \E d \in {1, CheckInterval, SessionTimeout} :
        /\ session.advances < MaxAdvances
        /\ now' = now + d
        /\ session' = [session EXCEPT !.advances = @ + 1]
        /\ UNCHANGED <<lastActivity, location, intervalOn, intervalDue, debouncePending,
                       debounceDue, backendVars, queueVars>>

NextSession == PageLoad \/ IntervalFire \/ VisibilityChange \/ DebounceFire \/ Advance

----------------------------------------------------------------------------
(* Specifications.                                                         *)

Init ==
    /\ usersDoc = <<>>
    /\ progressDoc = <<>>
    /\ communityDoc = <<>>
    /\ clock = 0
    /\ resp = [req |-> NoReq, res |-> Res(0, "", "")]
    /\ inflight = <<>>
    /\ served = <<>>
    /\ created = [u \in Names |-> NoRecord]
    /\ applied = [u \in Names |-> 0]
    /\ logged = <<>>
    /\ writes = 0
    /\ lastActivity = <<>>
    /\ now = 0
    /\ location = "/index.html"
    /\ intervalOn = FALSE
    /\ intervalDue = 0
    /\ debouncePending = FALSE
    /\ debounceDue = 0
    /\ session = NoSession

Next ==
    \/ RegisterReq(Reliable)
    \/ LoginReq(Reliable)
    \/ GetProfileReq(Reliable)
    \/ AddPointsReq(Reliable)
    \/ LogProgressReq(Reliable)
    \/ ListProgressReq(Reliable)
    \/ ListPostsReq(Reliable)
    \/ CreatePostReq(Reliable)
    \/ Tick

\* The server on a file system whose reads and writes succeed.
Spec == Init /\ [][Next]_vars

NextFaults ==
    \/ RegisterReq(Faulty)
    \/ LoginReq(Faulty)
    \/ GetProfileReq(Faulty)
    \/ AddPointsReq(Faulty)
    \/ LogProgressReq(Faulty)
    \/ ListProgressReq(Faulty)
    \/ ListPostsReq(Faulty)
    \/ CreatePostReq(Faulty)
    \/ Tick

\* The server with the storage failures the Record Store absorbs.
SpecFaults == Init /\ [][NextFaults]_vars

\* The server with requests in flight; a received request gets its turn.
SpecQueue == Init /\ [][NextQueue]_vars /\ WF_vars(Complete)

\* The browser running main.js.
SpecSession == Init /\ [][NextSession]_vars

----------------------------------------------------------------------------
(* Properties of the User Service.                                         *)

Creds == {"passwordHash", "salt"}

Registered(u) == created[u] # NoRecord

UniqueUsernames ==
    \A i, j \in DOMAIN usersDoc :
        usersDoc[i].username = usersDoc[j].username => i = j

\* A register step (one that answers or writes; a step that leaves both the
\* response and the document alone changes nothing the claim is about) whose
\* username is already in the users document is
\* answered 400 (with 'Username already exists.' when the body passes the
\* presence check that precedes it) and leaves the document as it was.
DuplicateRejected ==
    (/\ resp' # resp \/ usersDoc' # usersDoc
     /\ resp'.req.op = "register"
     /\ FindUser(usersDoc, resp'.req.username) # 0)
        => /\ resp'.res.status = 400
           /\ Truthy(resp'.req.password) => resp'.res.error = "Username already exists."
           /\ usersDoc' = usersDoc

C2_LoginIndistinguishable ==
    (resp.req.op = "login" /\ resp.res.status # 200)
        => /\ resp.res = login(resp.req, <<>>).res
           /\ resp.res.status = 400
           /\ resp.res.error = "Invalid credentials."

\* C3: no response of login or getProfile carries passwordHash or salt, and
\* a successful one carries every other field of the stored record unchanged.
C3_ProfileWithoutCredentials ==
    resp.req.op \in {"login", "getProfile"} =>
        /\ \A k \in DOMAIN resp.res.user : DOMAIN resp.res.user[k] \cap Creds = {}
        /\ resp.res.status = 200 =>
            LET name == IF resp.req.op = "login" THEN resp.req.username ELSE resp.req.param
                i == FindUser(usersDoc, name)
            IN  /\ i # 0
                /\ Len(resp.res.user) = 1
                /\ DOMAIN resp.res.user[1] = DOMAIN usersDoc[i] \ Creds
                /\ \A f \in DOMAIN usersDoc[i] \ Creds :
                        resp.res.user[1][f] = usersDoc[i][f]

\* A login answered with a profile whose points are no longer 0.
C3_Witness ==
    /\ resp.req.op = "login"
    /\ resp.res.status = 200
    /\ resp.res.user[1].points = Num(3)
    /\ resp.res.user[1].name = Str("Al")

LoginMatchesPassword ==
    (resp.req.op = "login" /\ resp.req.username.t = "string"
        /\ resp.req.username.s \in Names /\ Registered(resp.req.username.s))
    => (resp.res.status = 200
            <=> resp.req.password = created[resp.req.username.s][1].password)

FreshLoginHasNoPoints ==
    (/\ resp.req.op = "register" /\ resp.res.status = 200
     /\ resp'.req.op = "login" /\ resp'.res.status = 200
     /\ resp'.req.username = resp.req.username)
    => resp'.res.user[1].points = Num(0)

\* C4: once a user is registered with password P, a login for that username
\* succeeds exactly when the supplied password is P, whatever requests were
\* served in between; a login right after the registration returns points 0.
C4_LoginIffPassword == [](LoginMatchesPassword) /\ [][FreshLoginHasNoPoints]_vars

\* A login that succeeds after points were added and another user registered.
C4_Witness ==
    /\ resp.req.op = "login"
    /\ resp.res.status = 200
    /\ applied["alice"] # 0
    /\ Len(usersDoc) = 2

\* C5: the stored record of a registered user is the record created at its
\* registration with points equal to the sum of the deltas applied to it, and
\* a successful addPoints returns that total.
C5_PointsAreSumOfDeltas ==
    /\ \A u \in Names : Registered(u) =>
            LET i == FindUser(usersDoc, Str(u)) IN
            /\ i # 0
            /\ usersDoc[i] = [created[u][1].record EXCEPT !.points = Num(applied[u])]
    /\ (resp.req.op = "addPoints" /\ resp.res.status = 200)
            => resp.res.points = applied[resp.req.param.s]

\* +5 then -2 from 0: the second addPoints returns 3.
C5_Witness ==
    /\ resp.req.op = "addPoints"
    /\ resp.req.points = Num(-2)
    /\ resp.res.status = 200
    /\ resp.res.points = 3
    /\ applied["alice"] = 3

\* C6: a user record created by a successful registration stays in the users
\* document, and getProfile for it never answers 404.
C6_RecordNeverRemoved ==
    /\ \A u \in Names : Registered(u) => FindUser(usersDoc, Str(u)) # 0
    /\ (resp.req.op = "getProfile" /\ Registered(resp.req.param.s))
            => resp.res.status # 404

----------------------------------------------------------------------------
(* Properties of the Progress and Community Services.                      *)

Absent(v) == v.t \in {"undefined", "null"}

\* The entry a logProgress request is said to store: the values supplied,
\* null for a value not supplied.
Entered(l, e) ==
    /\ e.username = l.username
    /\ e.steps = (IF Absent(l.steps) THEN Null ELSE l.steps)
    /\ e.minutes = (IF Absent(l.minutes) THEN Null ELSE l.minutes)

LoggedFor(name) == SelectSeq(logged, LAMBDA l : l.username = name)

\* C7: logProgress is rejected exactly when steps and minutes are both
\* absent; the progress document holds, in order, one entry per accepted
\* request with the values supplied (null where none was), and listProgress
\* returns exactly the entries of its username in that order.
C7_ProgressLogFaithful ==
    /\ resp.req.op = "logProgress" =>
            /\ resp.res.status \in {200, 400}
            /\ resp.res.status = 400 <=> (Absent(resp.req.steps) /\ Absent(resp.req.minutes))
    /\ Len(progressDoc) = Len(logged)
    /\ \A k \in DOMAIN progressDoc : Entered(logged[k], progressDoc[k])
    /\ resp.req.op = "listProgress" =>
            /\ Len(resp.res.list) = Len(LoggedFor(resp.req.param))
            /\ \A k \in DOMAIN resp.res.list :
                    Entered(LoggedFor(resp.req.param)[k], resp.res.list[k])

ErrorLeavesDocuments ==
    resp'.res.status >= 400
        => /\ usersDoc' = usersDoc
           /\ progressDoc' = progressDoc
           /\ communityDoc' = communityDoc

\* C8: a request answered with an error status leaves the users, progress and
\* community documents unchanged.
C8_ErrorsWriteNothing == [][ErrorLeavesDocuments]_vars

\* createPost without description: 400, and the stored post still there alone.
C8_Witness ==
    /\ resp.req.op = "createPost"
    /\ resp.req.description = Undefined
    /\ resp.res.status = 400
    /\ Len(communityDoc) = 1
    /\ Len(usersDoc) = 1

----------------------------------------------------------------------------
(* Concurrent requests.                                                    *)

RECURSIVE CountOk(_, _)
\* The requests of kind op served with status 200.
CountOk(h, op) ==
    IF h = <<>> THEN 0
    ELSE CountOk(Tail(h), op)
         + (IF Head(h).req.op = op /\ Head(h).status = 200 THEN 1 ELSE 0)

RECURSIVE SumOk(_, _)
\* The sum of the deltas of the addPoints requests for name served with 200.
SumOk(h, name) ==
    IF h = <<>> THEN 0
    ELSE SumOk(Tail(h), name)
         + (IF Head(h).req.op = "addPoints" /\ Head(h).req.param = name
                /\ Head(h).status = 200
            THEN Head(h).req.points.n ELSE 0)

\* Some request was answered with success and a persisted document does not
\* reflect it.
LostUpdate ==
    \/ CountOk(served, "register") # Len(usersDoc)
    \/ CountOk(served, "logProgress") # Len(progressDoc)
    \/ CountOk(served, "createPost") # Len(communityDoc)
    \/ \E i \in DOMAIN usersDoc :
            usersDoc[i].points # Num(SumOk(served, usersDoc[i].username))

----------------------------------------------------------------------------
(* Session timeout of the frontend.                                        *)

\* checkSession answers true and stores the time of the call when there was
\* no item or it was at most 30 minutes old; otherwise it answers false,
\* redirects to /login.html and leaves the item as it was.
CheckSessionRule ==
    session.checked =>
        IF session.stored = -1 \/ session.at - session.stored <= SessionTimeout
        THEN /\ session.result
             /\ lastActivity = ToDigits(session.at)
        ELSE /\ ~session.result
             /\ location = "/login.html"
             /\ session.stored >= 0
             /\ lastActivity = ToDigits(session.stored)

\* Once checkSession has answered false, its latest answer is false.
ExpiredForGood == session.expired => (session.checked /\ ~session.result)

\* C10 as stated: the checkSession rule, no way back from expiry, and
\* updateNavInfo never runs after expiry.
C10_SessionExpiryFinal ==
    /\ CheckSessionRule
    /\ ExpiredForGood
    /\ ~session.navAfterExpiry

\* C10 as amended: the checkSession rule, no way back from expiry, and after
\* expiry no listener calls updateNavInfo or hands it to the debounce timer
\* (a run that the timer was already holding can still follow).
C10_SessionExpiryAmended ==
    /\ CheckSessionRule
    /\ ExpiredForGood
    /\ ~session.navCalledAfterExpiry

\* updateNavInfo has run, then a check made one millisecond past the 30
\* minutes found the session expired and redirected, on a reloaded page.
C10_Witness ==
    /\ session.expired
    /\ session.navRuns = 1
    /\ session.at - session.stored = SessionTimeout + 1
    /\ location = "/login.html"
    /\ ~intervalOn

====
